---- MODULE Spec2Model ----
(***************************************************************************)
(* Repayment schedule ledger of the loan-application backend:              *)
(*   RepaymentScheduleService (generateScheduleFromDisbursement,           *)
(*   recordPayment, processEarlyRepayment), RepaymentScheduleRepository,   *)
(*   DistributedLock over RedisConnection, EventPublisher.                 *)
(*                                                                         *)
(* The amounts a schedule stores and the amounts paid are JavaScript        *)
(* numbers (IEEE 754 doubles), held exactly. The intermediate values of    *)
(* the amortization formula are integers in units of 1/Scale cent.         *)
(***************************************************************************)
EXTENDS Integers, Sequences, FiniteSets, TLC

\* ------------------------------------------------------------------ bounds
MaxCalls == 2
MaxSchedules == 2
MaxSeqCalls == 3
MaxRequests == 2

\* ------------------------------------------------------- program constants
MaxRetries == 3

Scale == 10 * 100

\* Every call is a request of its own, handled by its own async task.
Procs == 1..MaxCalls
\* ids a caller may name: the id of the first document of the collection (which
\* does not exist before generation has run)
ScheduleIds == {1}

Null == [null |-> TRUE]

\* ------------------------------------------------------------- the data set
\* Loan L1 has two disbursement records pointing at it (a redelivered or
\* duplicated disbursement). L2 and L3 bear no interest, L4 runs over three
\* months; L5 has no principal and L6 no term (what the amortization is asked
\* to reject).
Loans ==
  [L1 |-> [amount |-> 1200 * 100 * Scale, interestRate |-> 60, term |-> 2],
   L2 |-> [amount |-> 1200 * 100 * Scale, interestRate |-> 0, term |-> 2],
   L3 |-> [amount |-> 1200 * 100 * Scale, interestRate |-> 0, term |-> 1],
   L4 |-> [amount |-> 1200 * 100 * Scale, interestRate |-> 60, term |-> 3],
   L5 |-> [amount |-> 0, interestRate |-> 60, term |-> 2],
   L6 |-> [amount |-> 1200 * 100 * Scale, interestRate |-> 60, term |-> 0]]
Disbursements ==
  [D1 |-> [loanApplicationId |-> "L1"], D2 |-> [loanApplicationId |-> "L1"],
   D3 |-> [loanApplicationId |-> "L2"], D4 |-> [loanApplicationId |-> "L3"],
   D5 |-> [loanApplicationId |-> "L4"], D6 |-> [loanApplicationId |-> "L5"],
   D7 |-> [loanApplicationId |-> "L6"]]
\* the disbursements of the concurrent runs
DisbursementIds == {"D1", "D2"}

\* ------------------------------------------------ JavaScript numbers
\* A number of the code is an IEEE 754 double. The ledger's stored amounts
\* are held exactly: a non-negative double is the integer N of its value
\* N * 2^-FracBits, written in six limbs of LimbBits bits, least significant
\* first; NaNd is the NaN.
LimbBits == 6 * 4
LimbBase == 2 ^ LimbBits
FracBits == 6 * 11
MantissaBits == 50 + 3

Limbs == 1..6
BigZero == <<0, 0, 0, 0, 0, 0>>
NaNd == <<0 - 1, 0, 0, 0, 0, 0>>
IsNaNd(x) == x[1] < 0

\* n < 2^31 as a big integer
BigOfInt(n) == <<n % LimbBase, n \div LimbBase, 0, 0, 0, 0>>
IntOfBig(a) == a[1] + a[2] * LimbBase

\* a + b, and a - b for a >= b (a negative sum of limbs borrows: \div rounds
\* down)
BigAdd(a, b) ==
  LET s1 == a[1] + b[1]
      s2 == a[2] + b[2] + (s1 \div LimbBase)
      s3 == a[3] + b[3] + (s2 \div LimbBase)
      s4 == a[4] + b[4] + (s3 \div LimbBase)
      s5 == a[5] + b[5] + (s4 \div LimbBase)
      s6 == a[6] + b[6] + (s5 \div LimbBase)
  IN <<s1 % LimbBase, s2 % LimbBase, s3 % LimbBase, s4 % LimbBase, s5 % LimbBase,
       s6 % LimbBase>>

BigSub(a, b) ==
  LET s1 == a[1] - b[1]
      s2 == a[2] - b[2] + (s1 \div LimbBase)
      s3 == a[3] - b[3] + (s2 \div LimbBase)
      s4 == a[4] - b[4] + (s3 \div LimbBase)
      s5 == a[5] - b[5] + (s4 \div LimbBase)
      s6 == a[6] - b[6] + (s5 \div LimbBase)
  IN <<s1 % LimbBase, s2 % LimbBase, s3 % LimbBase, s4 % LimbBase, s5 % LimbBase,
       s6 % LimbBase>>

BigLess(a, b) ==
  IF a[6] # b[6] THEN a[6] < b[6]
  ELSE IF a[5] # b[5] THEN a[5] < b[5]
  ELSE IF a[4] # b[4] THEN a[4] < b[4]
  ELSE IF a[3] # b[3] THEN a[3] < b[3]
  ELSE IF a[2] # b[2] THEN a[2] < b[2]
  ELSE a[1] < b[1]

\* a * k for a small k (k < 2^7)
BigMulSmall(a, k) ==
  LET s1 == a[1] * k
      s2 == a[2] * k + (s1 \div LimbBase)
      s3 == a[3] * k + (s2 \div LimbBase)
      s4 == a[4] * k + (s3 \div LimbBase)
      s5 == a[5] * k + (s4 \div LimbBase)
      s6 == a[6] * k + (s5 \div LimbBase)
  IN <<s1 % LimbBase, s2 % LimbBase, s3 % LimbBase, s4 % LimbBase, s5 % LimbBase,
       s6 % LimbBase>>

\* a \div d and a % d for a small d (d < 2^7): <<quotient, remainder>>
BigDivSmall(a, d) ==
  LET c6 == a[6]
      c5 == (c6 % d) * LimbBase + a[5]
      c4 == (c5 % d) * LimbBase + a[4]
      c3 == (c4 % d) * LimbBase + a[3]
      c2 == (c3 % d) * LimbBase + a[2]
      c1 == (c2 % d) * LimbBase + a[1]
  IN <<<<c1 \div d, c2 \div d, c3 \div d, c4 \div d, c5 \div d, c6 \div d>>, c1 % d>>

Limb(a, i) == IF i \in Limbs THEN a[i] ELSE 0

BigShiftLeft(a, s) ==
  LET k == s \div LimbBits
      lo == 2 ^ (s % LimbBits)
      hi == 2 ^ (LimbBits - (s % LimbBits))
      L(i) == (Limb(a, i - k) % hi) * lo + Limb(a, i - k - 1) \div hi
  IN <<L(1), L(2), L(3), L(4), L(5), L(6)>>

BigShiftRight(a, s) ==
  LET k == s \div LimbBits
      lo == 2 ^ (s % LimbBits)
      hi == 2 ^ (LimbBits - (s % LimbBits))
      L(i) == Limb(a, i + k) \div lo + (Limb(a, i + k + 1) % lo) * hi
  IN <<L(1), L(2), L(3), L(4), L(5), L(6)>>

\* bit j of a (bit 0 is the least significant), and whether a bit below j is set
BigBit(a, j) == (a[(j \div LimbBits) + 1] \div (2 ^ (j % LimbBits))) % 2 = 1
BigAnyBelow(a, j) ==
  \/ a[(j \div LimbBits) + 1] % (2 ^ (j % LimbBits)) # 0
  \/ \E i \in 1..(j \div LimbBits) : a[i] # 0

\* the number of significant bits
IntBitLen(n) == CHOOSE k \in 0..LimbBits : n < 2 ^ k /\ (k = 0 \/ n >= 2 ^ (k - 1))
BigBitLen(a) ==
  IF a[6] # 0 THEN 5 * LimbBits + IntBitLen(a[6])
  ELSE IF a[5] # 0 THEN 4 * LimbBits + IntBitLen(a[5])
  ELSE IF a[4] # 0 THEN 3 * LimbBits + IntBitLen(a[4])
  ELSE IF a[3] # 0 THEN 2 * LimbBits + IntBitLen(a[3])
  ELSE IF a[2] # 0 THEN LimbBits + IntBitLen(a[2])
  ELSE IntBitLen(a[1])

\* Round to nearest, ties to even, at MantissaBits significant bits; sticky
\* tells that the exact value lies strictly above a.
RoundToDouble(a, sticky) ==
  LET s == BigBitLen(a) - MantissaBits
      k == (s \div LimbBits) + 1
      T(i) == IF i < k THEN 0
              ELSE IF i = k THEN a[i] - (a[i] % (2 ^ (s % LimbBits)))
              ELSE a[i]
      U(i) == IF i = k THEN 2 ^ (s % LimbBits) ELSE 0
      truncated == <<T(1), T(2), T(3), T(4), T(5), T(6)>>
  IN IF s <= 0 \/ ~BigAnyBelow(a, s) THEN a
     ELSE IF BigBit(a, s - 1) /\ (sticky \/ BigAnyBelow(a, s - 1) \/ BigBit(a, s))
     THEN BigAdd(truncated, <<U(1), U(2), U(3), U(4), U(5), U(6)>>)
     ELSE truncated

\* x + y and x - y (x >= y) of doubles
F64Add(x, y) == IF IsNaNd(x) \/ IsNaNd(y) THEN NaNd ELSE RoundToDouble(BigAdd(x, y), FALSE)
F64Sub(x, y) == IF IsNaNd(x) \/ IsNaNd(y) THEN NaNd ELSE RoundToDouble(BigSub(x, y), FALSE)
\* x < y, x >= y, x <= y: false when either is NaN
F64Less(x, y) == ~IsNaNd(x) /\ ~IsNaNd(y) /\ BigLess(x, y)
F64GreaterEq(x, y) == ~IsNaNd(x) /\ ~IsNaNd(y) /\ ~BigLess(x, y)
F64LessEq(x, y) == ~IsNaNd(x) /\ ~IsNaNd(y) /\ ~BigLess(y, x)

\* The double nearest to cents / 100: the number a decimal literal or
\* parseFloat of a toFixed(2) string denotes.
F64OfCents(cents) ==
  LET qr == BigDivSmall(BigShiftLeft(BigOfInt(cents), FracBits - 2), 25)
  IN RoundToDouble(qr[1], qr[2] # 0)

\* x.toFixed(2), in cents: the integer n with n / 100 nearest to x, the larger
\* one of two.
F64ToCents(x) ==
  IntOfBig(BigShiftRight(
    BigAdd(BigMulSmall(BigMulSmall(x, 100), 2), BigShiftLeft(BigOfInt(1), FracBits)),
    FracBits + 1))

\* parseFloat(x.toFixed(2))
F64Round2(x) == IF IsNaNd(x) THEN NaNd ELSE F64OfCents(F64ToCents(x))

\* x * 0.02. The double 0.02 is m * 2^-58 with m = 5764607523034235, and
\* 50 * m = 2^58 + 6: the exact product x * m is (x * 2^58 + 6 * x) / 50.
PenaltyRateExponent == 50 + 8
F64MulPenaltyRate(x) ==
  IF IsNaNd(x) THEN NaNd
  ELSE BigShiftRight(
         RoundToDouble(
           BigDivSmall(BigAdd(BigShiftLeft(x, PenaltyRateExponent), BigMulSmall(x, 6)), 50)[1],
           FALSE),
         PenaltyRateExponent)

\* ------------------------------------- the amortization formula's values
RECURSIVE GCD(_, _)
GCD(a, b) == IF b = 0 THEN a ELSE GCD(b, a % b)

RECURSIVE Pow(_, _)
Pow(x, n) == IF n = 0 THEN 1 ELSE x * Pow(x, n - 1)

\* x * num / den without overflowing the intermediate product
MulDiv(x, num, den) == (x \div den) * num + ((x % den) * num) \div den

\* parseFloat(x.toFixed(2)): round to the nearest cent, halves away from zero
toFixed2(x) == ((x + (Scale \div 2)) \div Scale) * Scale

\* annualRate / 100 / 12 as a reduced fraction <<numerator, denominator>>
monthlyRateOf(annualRate) ==
  LET g == GCD(annualRate, 1200) IN <<annualRate \div g, 1200 \div g>>

\* IEEE NaN, which the code's arithmetic produces for 0/0 and propagates;
\* an integer no amount of the model takes stands for it.
NaN == 0 - 2147483647
IsNaN(x) == x = NaN
FAdd(x, y) == IF IsNaN(x) \/ IsNaN(y) THEN NaN ELSE x + y
FSub(x, y) == IF IsNaN(x) \/ IsNaN(y) THEN NaN ELSE x - y
\* parseFloat(x.toFixed(2)) of an intermediate value: the double that is stored
FRound(x) == IF IsNaN(x) THEN NaNd ELSE F64OfCents(toFixed2(x) \div Scale)
\* an intermediate value stored as it is: the double nearest to x / (100 * Scale)
F64OfFixed(x) ==
  IF IsNaN(x) THEN NaNd
  ELSE LET q1 == BigDivSmall(BigShiftLeft(BigOfInt(x), FracBits - 5), 125)
           q2 == BigDivSmall(q1[1], 25)
       IN RoundToDouble(q2[1], q1[2] # 0 \/ q2[2] # 0)
\* x * (r[1] / r[2])
FMulRate(x, r) == IF IsNaN(x) THEN NaN ELSE MulDiv(x, r[1], r[2])

\* (principal * r * (1+r)^n) / ((1+r)^n - 1), with r = a/b:
\*   principal * a * (a+b)^n / (b * ((a+b)^n - b^n));  0/0 when r = 0
monthlyPaymentOf(principal, r, termMonths) ==
  LET a == r[1]
      b == r[2]
      num == a * Pow(a + b, termMonths)
      den == b * (Pow(a + b, termMonths) - Pow(b, termMonths))
  IN IF den = 0 THEN NaN ELSE MulDiv(principal, num, den)

\* The loop body of calculateInstallments for installment i, given the
\* principal still remaining before it.
InstallmentAt(i, termMonths, remainingPrincipal, r, monthlyPayment) ==
  LET interestAmount == FMulRate(remainingPrincipal, r)
      principalAmount == FSub(monthlyPayment, interestAmount)
  IN IF i = termMonths
     THEN LET totalAmount == FAdd(remainingPrincipal, interestAmount)
          IN [installmentNumber |-> i,
              dueDate |-> i,
              principalAmount |-> F64OfFixed(remainingPrincipal),
              interestAmount |-> FRound(interestAmount),
              totalAmount |-> FRound(totalAmount),
              paidAmount |-> BigZero,
              outstandingAmount |-> FRound(totalAmount),
              status |-> "pending"]
     ELSE [installmentNumber |-> i,
           dueDate |-> i,
           principalAmount |-> FRound(principalAmount),
           interestAmount |-> FRound(interestAmount),
           totalAmount |-> FRound(monthlyPayment),
           paidAmount |-> BigZero,
           outstandingAmount |-> FRound(monthlyPayment),
           status |-> "pending"]

RECURSIVE InstallmentsFrom(_, _, _, _, _)
InstallmentsFrom(i, termMonths, remainingPrincipal, r, monthlyPayment) ==
  IF i > termMonths THEN <<>>
  ELSE LET interestAmount == FMulRate(remainingPrincipal, r)
           principalAmount == FSub(monthlyPayment, interestAmount)
       IN <<InstallmentAt(i, termMonths, remainingPrincipal, r, monthlyPayment)>>
          \o InstallmentsFrom(i + 1, termMonths,
                              FSub(remainingPrincipal, principalAmount), r, monthlyPayment)

\* Due dates are counted in months after the start date: getNextPaymentDate
\* advances by one month for the first and for every later installment.
calculateInstallments(principal, annualRate, termMonths) ==
  LET r == monthlyRateOf(annualRate)
  IN InstallmentsFrom(1, termMonths, principal, r, monthlyPaymentOf(principal, r, termMonths))

\* installments.reduce((sum, inst) => sum + inst[f], 0)
RECURSIVE SumFieldFrom(_, _, _, _)
SumFieldFrom(insts, f, i, sum) ==
  IF i > Len(insts) THEN sum ELSE SumFieldFrom(insts, f, i + 1, F64Add(sum, insts[i][f]))
SumField(insts, f) == SumFieldFrom(insts, f, 1, BigZero)

CountStatus(insts, st) == Cardinality({i \in DOMAIN insts : insts[i].status = st})

calculateSummary(installments) ==
  [totalPrincipal |-> F64Round2(SumField(installments, "principalAmount")),
   totalInterest |-> F64Round2(SumField(installments, "interestAmount")),
   totalAmount |-> F64Round2(SumField(installments, "totalAmount")),
   paidAmount |-> BigZero,
   outstandingAmount |-> F64Round2(SumField(installments, "totalAmount")),
   numberOfInstallments |-> Len(installments),
   completedInstallments |-> 0]

recalculateSummary(installments) ==
  [totalPrincipal |-> SumField(installments, "principalAmount"),
   totalInterest |-> SumField(installments, "interestAmount"),
   totalAmount |-> SumField(installments, "totalAmount"),
   paidAmount |-> F64Round2(SumField(installments, "paidAmount")),
   outstandingAmount |-> F64Round2(SumField(installments, "outstandingAmount")),
   numberOfInstallments |-> Len(installments),
   completedInstallments |-> CountStatus(installments, "paid")]

\* -------------------------------------------------------------------- state
VARIABLES
  redis,      \* lock key -> 0 when the key is absent, else the caller whose SET NX
              \* created it (Redis stores '1'; the caller is kept to tell whose key it is)
  schedules,  \* the RepaymentSchedule collection, in creation order; the id of a
              \* document is its position
  events,     \* <<event type, aggregate id>> -> number of such events handed to
              \* RabbitMQ so far
  calls,      \* per worker: the ledger call it is executing and where it stands
  budget,     \* number of calls that may still be started
  loans,      \* loan id -> status of the LoanApplication document
  repayments, \* the Repayment collection, in creation order; the id of a
              \* document is its position
  requests    \* per request: the RepaymentService call it is executing

vars == <<redis, schedules, events, calls, budget, loans, repayments, requests>>

\* RepaymentService requests are handled each by its own async task.
Requests == 1..MaxRequests

NoRequestKey == <<"", 0>>

IdleRequest ==
  [op |-> "none", pc |-> "idle", key |-> NoRequestKey,
   loanApplicationId |-> "", amount |-> <<0, 0, 0, 0, 0, 0>>, repaymentId |-> 0,
   scheduleId |-> 0,
   nextInstallment |-> [none |-> TRUE],  \* the installment processPayment found
   readNotes |-> 0,            \* the notes of the repayment processRefund read
   ledger |-> 0,               \* the worker running this request's recordPayment
   retries |-> 0,
   outcome |-> "none", result |-> "none",
   acquired |-> FALSE, released |-> FALSE,
   wrote |-> FALSE, published |-> FALSE]

\* RepaymentScheduleService has no access to loans' statuses, to the Repayment
\* collection or to the requests of RepaymentService.
LedgerOnly == UNCHANGED <<loans, repayments, requests>>

\* No RepaymentService request is under way: the loans are disbursed and
\* nothing has been repaid through RepaymentService.
NoRepayments ==
  /\ loans = [l \in DOMAIN Loans |-> "disbursed"]
  /\ repayments = <<>>
  /\ requests = [r \in Requests |-> IdleRequest]

\* Amounts the callers pay: one installment's total; for an early repayment,
\* the whole debt without and with room for the penalty.
InstallmentTotal ==
  calculateInstallments(Loans.L1.amount, Loans.L1.interestRate, Loans.L1.term)[1].totalAmount
PayAmounts == {InstallmentTotal}
EarlyAmounts == {F64Add(InstallmentTotal, InstallmentTotal), F64OfCents(1400 * 100)}

PaymentKey(sid) == <<"repayment-schedule:payment", sid>>
EarlyKey(sid) == <<"repayment-schedule:early", sid>>
GenerateKey(did) == <<"repayment-schedule", did>>
Keys == {PaymentKey(sid) : sid \in ScheduleIds} \cup {EarlyKey(sid) : sid \in ScheduleIds}
        \cup {GenerateKey(did) : did \in DOMAIN Disbursements}

NoKey == <<"", 0>>
NoUpdate == [none |-> TRUE]

IdleCall ==
  [op |-> "none", pc |-> "idle", key |-> NoKey,
   scheduleId |-> 0, paymentAmount |-> BigZero, disbursementId |-> "",
   retries |-> 0,
   updateData |-> NoUpdate,    \* the $set computed by the callback, not yet written
   installmentsPaid |-> 0,
   outcome |-> "none",         \* what the callback returned or threw
   result |-> "none",          \* what executeWithLock returned or threw
   acquired |-> FALSE, released |-> FALSE,
   leaseExpired |-> FALSE,     \* the key expired while this call held it
   lockDeleted |-> FALSE,      \* another caller's release deleted this call's key
   readVersion |-> 0 - 1,      \* version of the document findById returned
   readDone |-> FALSE, wrote |-> FALSE,
   published |-> <<>>]

\* ------------------------------------------------------------- repository
\* RepaymentScheduleModel.findById
findById(id) == IF id \in DOMAIN schedules THEN schedules[id] ELSE Null

\* RepaymentScheduleModel.findOne({ loanApplicationId })
findByLoanApplicationId(loanId) ==
  IF \E i \in DOMAIN schedules : schedules[i].loanApplicationId = loanId
  THEN schedules[CHOOSE i \in DOMAIN schedules :
                   /\ schedules[i].loanApplicationId = loanId
                   /\ \A j \in DOMAIN schedules :
                        schedules[j].loanApplicationId = loanId => i <= j]
  ELSE Null

\* findByIdAndUpdate(id, { $set: updateData, $inc: { version: 1 } }): the
\* document after the update. Only the fields present in updateData change.
ApplyUpdate(doc, updateData) ==
  [f \in DOMAIN doc |->
     IF f = "version" THEN doc.version + 1
     ELSE IF f \in DOMAIN updateData THEN updateData[f] ELSE doc[f]]

\* the unique index on loanApplicationId
UniqueIndexViolated(loanId) ==
  \E i \in DOMAIN schedules : schedules[i].loanApplicationId = loanId

\* ------------------------------------------------------- DistributedLock
\* RedisConnection.acquireLock: SET key 1 EX ttl NX
acquireLock(k) == redis[k] = 0

\* The first step of the callback of each operation.
CallbackEntry(op) ==
  CASE op = "recordPayment" -> "read"
    [] op = "processEarlyRepayment" -> "earlyRead"
    [] OTHER -> "genRead"

\* A ledger call starts: executeWithLock is entered and the first iteration of
\* DistributedLock.acquire's loop issues its SET NX (nothing shared is touched
\* before it).
StartCall(p, op, k, sid, amt, did) ==
  /\ calls[p].pc = "idle"
  /\ \A q \in Procs : q < p => calls[q].pc # "idle"   \* requests are numbered in
                                                     \* the order of their arrival
  /\ budget > 0
  /\ budget' = budget - 1
  /\ IF acquireLock(k)
     THEN /\ redis' = [redis EXCEPT ![k] = p]
          /\ calls' = [calls EXCEPT ![p] =
                [IdleCall EXCEPT !.op = op, !.pc = CallbackEntry(op), !.key = k,
                                 !.scheduleId = sid, !.paymentAmount = amt,
                                 !.disbursementId = did, !.acquired = TRUE]]
     ELSE /\ redis' = redis
          /\ calls' = [calls EXCEPT ![p] =
                [IdleCall EXCEPT !.op = op, !.pc = "acquire", !.key = k,
                                 !.scheduleId = sid, !.paymentAmount = amt,
                                 !.disbursementId = did, !.retries = 1]]
  /\ UNCHANGED <<schedules, events>>

CallRecordPayment(p) ==
  \E sid \in ScheduleIds, amt \in PayAmounts :
    StartCall(p, "recordPayment", PaymentKey(sid), sid, amt, "")

CallProcessEarlyRepayment(p) ==
  \E sid \in ScheduleIds, amt \in EarlyAmounts :
    StartCall(p, "processEarlyRepayment", EarlyKey(sid), sid, amt, "")

CallGenerateSchedule(p) ==
  \E did \in DisbursementIds :
    StartCall(p, "generateScheduleFromDisbursement", GenerateKey(did), 0, BigZero, did)

\* A later iteration of DistributedLock.acquire's loop that obtains the key.
AcquireSuccess(p) ==
  LET c == calls[p] IN
  /\ c.pc = "acquire"
  /\ acquireLock(c.key)
  /\ redis' = [redis EXCEPT ![c.key] = p]
  /\ calls' = [calls EXCEPT ![p].acquired = TRUE, ![p].pc = CallbackEntry(c.op)]
  /\ UNCHANGED <<schedules, events, budget>>

\* AcquireFail failing open: once the retries are used up the callback is run
\* without the lock.
AcquireFailOpen(p) ==
  LET c == calls[p] IN
  /\ c.pc = "acquire"
  /\ ~acquireLock(c.key)
  /\ calls' = [calls EXCEPT ![p] =
        IF c.retries + 1 < MaxRetries
        THEN [c EXCEPT !.retries = c.retries + 1]
        ELSE [c EXCEPT !.retries = c.retries + 1, !.pc = CallbackEntry(c.op)]]
  /\ UNCHANGED <<redis, schedules, events, budget>>

\* A later iteration that finds the key taken: retries++, then either sleep and
\* loop, or (retries = maxRetries) acquire returns false and executeWithLock
\* throws Error("Failed to acquire lock") without calling the callback.
AcquireFail(p) ==
  LET c == calls[p] IN
  /\ c.pc = "acquire"
  /\ ~acquireLock(c.key)
  /\ calls' = [calls EXCEPT ![p] =
        IF c.retries + 1 < MaxRetries
        THEN [c EXCEPT !.retries = c.retries + 1]
        ELSE [c EXCEPT !.retries = c.retries + 1, !.pc = "returned",
                       !.result = "LockAcquisitionFailed"]]
  /\ UNCHANGED <<redis, schedules, events, budget>>

\* Release without the finally block: the key is deleted only when the
\* callback returned, and is left behind when it threw.
ReleaseOnSuccessOnly(p) ==
  LET c == calls[p]
      owner == redis[c.key] IN
  /\ c.pc = "release"
  /\ IF c.outcome = "ok"
     THEN /\ redis' = [redis EXCEPT ![c.key] = 0]
          /\ calls' = [q \in Procs |->
                IF q = p THEN [c EXCEPT !.released = TRUE, !.pc = "returned", !.result = c.outcome]
                ELSE IF q = owner THEN [calls[q] EXCEPT !.lockDeleted = TRUE]
                ELSE calls[q]]
     ELSE /\ redis' = redis
          /\ calls' = [calls EXCEPT ![p].pc = "returned", ![p].result = c.outcome]
  /\ UNCHANGED <<schedules, events, budget>>

\* finally { await this.release(key) }: DEL key, whoever created it; then
\* executeWithLock returns the callback's result or rethrows its error, and
\* the callback's locals are gone.
Release(p) ==
  LET c == calls[p]
      owner == redis[c.key] IN
  /\ c.pc = "release"
  /\ redis' = [redis EXCEPT ![c.key] = 0]
  /\ calls' = [q \in Procs |->
        IF q = p THEN [c EXCEPT !.released = TRUE, !.pc = "returned", !.result = c.outcome,
                                !.updateData = NoUpdate, !.readVersion = 0 - 1]
        ELSE IF q = owner THEN [calls[q] EXCEPT !.lockDeleted = TRUE]
        ELSE calls[q]]
  /\ UNCHANGED <<schedules, events, budget>>

\* The key's TTL (EX 30) runs out while the key is still there.
Expire(k) ==
  /\ redis[k] # 0
  /\ redis' = [redis EXCEPT ![k] = 0]
  /\ calls' = [calls EXCEPT ![redis[k]].leaseExpired = TRUE]
  /\ UNCHANGED <<schedules, events, budget>>

\* ---------------------------------------------------------- recordPayment
\* The allocation loop of recordPayment from index i on: the installments
\* after the loop, the number of installments it marked paid and the money
\* left over.
\* AllocateFrom without "remainingPayment = 0" in the partial branch: what
\* is left of the payment is applied to the later installments as well.
RECURSIVE AllocateFromSpill(_, _, _, _)
AllocateFromSpill(i, installments, remainingPayment, installmentsPaid) ==
  IF i > Len(installments) \/ F64LessEq(remainingPayment, BigZero)
  THEN [installments |-> installments, installmentsPaid |-> installmentsPaid,
        remainingPayment |-> remainingPayment]
  ELSE LET installment == installments[i]
           outstandingAmount == installment.outstandingAmount
       IN IF installment.status = "paid"
          THEN AllocateFromSpill(i + 1, installments, remainingPayment, installmentsPaid)
          ELSE IF F64GreaterEq(remainingPayment, outstandingAmount)
          THEN AllocateFromSpill(i + 1,
                 [installments EXCEPT
                    ![i].paidAmount = installment.totalAmount,
                    ![i].outstandingAmount = BigZero,
                    ![i].status = "paid"],
                 F64Sub(remainingPayment, outstandingAmount), installmentsPaid + 1)
          ELSE AllocateFromSpill(i + 1,
                 [installments EXCEPT
                    ![i].paidAmount = F64Add(installment.paidAmount, remainingPayment),
                    ![i].outstandingAmount = F64Sub(installment.outstandingAmount, remainingPayment),
                    ![i].status = "partially_paid"],
                 remainingPayment, installmentsPaid)

RECURSIVE AllocateFrom(_, _, _, _)
AllocateFrom(i, installments, remainingPayment, installmentsPaid) ==
  IF i > Len(installments) \/ F64LessEq(remainingPayment, BigZero)
  THEN [installments |-> installments, installmentsPaid |-> installmentsPaid,
        remainingPayment |-> remainingPayment]
  ELSE LET installment == installments[i]
           outstandingAmount == installment.outstandingAmount
       IN IF installment.status = "paid"
          THEN AllocateFrom(i + 1, installments, remainingPayment, installmentsPaid)
          ELSE IF F64GreaterEq(remainingPayment, outstandingAmount)
          THEN AllocateFrom(i + 1,
                 [installments EXCEPT
                    ![i].paidAmount = installment.totalAmount,
                    ![i].outstandingAmount = BigZero,
                    ![i].status = "paid"],
                 F64Sub(remainingPayment, outstandingAmount), installmentsPaid + 1)
          ELSE AllocateFrom(i + 1,
                 [installments EXCEPT
                    ![i].paidAmount = F64Add(installment.paidAmount, remainingPayment),
                    ![i].outstandingAmount = F64Sub(installment.outstandingAmount, remainingPayment),
                    ![i].status = "partially_paid"],
                 BigZero, installmentsPaid)

Allocate(installments, paymentAmount) == AllocateFrom(1, installments, paymentAmount, 0)

IsOpen(inst) == inst.status = "pending" \/ inst.status = "partially_paid"

\* updatedInstallments.find(pending or partially_paid)?.dueDate; an undefined
\* value is dropped from the $set
nextPendingDueDate(installments) ==
  IF \E i \in DOMAIN installments : IsOpen(installments[i])
  THEN [nextPaymentDate |->
          installments[CHOOSE i \in DOMAIN installments :
             /\ IsOpen(installments[i])
             /\ \A j \in DOMAIN installments : IsOpen(installments[j]) => i <= j].dueDate]
  ELSE <<>>

\* recordPaymentUpdate with the summary taken from the installments as they
\* were read instead of the updated ones.
recordPaymentUpdateStaleSummary(schedule, updatedInstallments) ==
  LET newSummary == recalculateSummary(schedule.installments)
  IN [installments |-> updatedInstallments,
      summary |-> newSummary,
      status |-> IF newSummary.completedInstallments = schedule.summary.numberOfInstallments
                 THEN "completed" ELSE "active"]
     @@ nextPendingDueDate(updatedInstallments)

\* The $set recordPayment builds from the schedule it read.
recordPaymentUpdate(schedule, updatedInstallments) ==
  LET newSummary == recalculateSummary(updatedInstallments)
  IN [installments |-> updatedInstallments,
      summary |-> newSummary,
      status |-> IF newSummary.completedInstallments = schedule.summary.numberOfInstallments
                 THEN "completed" ELSE "active"]
     @@ nextPendingDueDate(updatedInstallments)

\* The callback throws: the finally block runs next.
Throw(p, err) ==
  calls' = [calls EXCEPT ![p].outcome = err, ![p].pc = "release"]

\* RecordPaymentRead without the status check: a payment is allocated on a
\* schedule of any status.
RecordPaymentReadAnyStatus(p) ==
  LET c == calls[p]
      schedule == findById(c.scheduleId) IN
  /\ c.pc = "read"
  /\ IF schedule = Null
     THEN Throw(p, "NotFound")
     ELSE LET allocation == Allocate(schedule.installments, c.paymentAmount) IN
          calls' = [calls EXCEPT
            ![p].updateData = recordPaymentUpdate(schedule, allocation.installments),
            ![p].installmentsPaid = allocation.installmentsPaid,
            ![p].readDone = TRUE,
            ![p].readVersion = schedule.version,
            ![p].pc = "write"]
  /\ UNCHANGED <<redis, schedules, events, budget>>

\* recordPayment's callback up to the point where it calls repository.update:
\* findById, the two checks, the allocation and the new summary.
RecordPaymentRead(p) ==
  LET c == calls[p]
      schedule == findById(c.scheduleId) IN
  /\ c.pc = "read"
  /\ IF schedule = Null
     THEN Throw(p, "NotFound")
     ELSE IF schedule.status # "active"
     THEN calls' = [calls EXCEPT ![p].outcome = "INACTIVE_SCHEDULE", ![p].pc = "release",
                                 ![p].readDone = TRUE, ![p].readVersion = schedule.version]
     ELSE LET allocation == Allocate(schedule.installments, c.paymentAmount) IN
          calls' = [calls EXCEPT
            ![p].updateData = recordPaymentUpdate(schedule, allocation.installments),
            ![p].installmentsPaid = allocation.installmentsPaid,
            ![p].readDone = TRUE,
            ![p].readVersion = schedule.version,
            ![p].pc = "write"]
  /\ UNCHANGED <<redis, schedules, events, budget>>

\* repository.update of recordPayment and of processEarlyRepayment.
RepositoryUpdate(p) ==
  LET c == calls[p] IN
  /\ c.pc = "write"
  /\ IF c.scheduleId \in DOMAIN schedules
     THEN /\ schedules' = [schedules EXCEPT
                 ![c.scheduleId] = ApplyUpdate(schedules[c.scheduleId], c.updateData)]
          /\ calls' = [calls EXCEPT ![p].wrote = TRUE, ![p].pc = "publish"]
     ELSE /\ Throw(p, "NotFound")
          /\ UNCHANGED schedules
  /\ UNCHANGED <<redis, events, budget>>

\* The event a call publishes first once its write is done.
FirstEvent(op) ==
  CASE op = "recordPayment" -> "repayment_schedule.payment_recorded"
    [] op = "processEarlyRepayment" -> "repayment_schedule.early_repayment"
    [] OTHER -> "repayment_schedule.created"

EventTypes == {"repayment_schedule.created", "repayment_schedule.payment_recorded",
               "repayment_schedule.completed", "repayment_schedule.early_repayment"}

\* rabbitmq.publish of an event of this type about the call's schedule
Published(p, type) ==
  [events EXCEPT ![<<type, calls[p].scheduleId>>] = @ + 1]

\* eventPublisher.publish succeeds for the first event of the call.
PublishOk(p) ==
  LET c == calls[p] IN
  /\ c.pc = "publish"
  /\ events' = Published(p, FirstEvent(c.op))
  /\ calls' = [calls EXCEPT
        ![p].published = Append(c.published, FirstEvent(c.op)),
        ![p].pc = IF c.op = "recordPayment" /\ c.updateData.status = "completed"
                  THEN "publishCompleted" ELSE "release",
        ![p].outcome = IF c.op = "recordPayment" /\ c.updateData.status = "completed"
                       THEN c.outcome ELSE "ok"]
  /\ UNCHANGED <<redis, schedules, budget>>

\* recordPayment publishes repayment_schedule.completed.
PublishCompletedOk(p) ==
  LET c == calls[p] IN
  /\ c.pc = "publishCompleted"
  /\ events' = Published(p, "repayment_schedule.completed")
  /\ calls' = [calls EXCEPT
        ![p].published = Append(c.published, "repayment_schedule.completed"),
        ![p].pc = "release", ![p].outcome = "ok"]
  /\ UNCHANGED <<redis, schedules, budget>>

\* eventPublisher.publish logs and rethrows what RabbitMQConnection.publish
\* throws (no channel): the callback fails after its write.
PublishFail(p) ==
  /\ calls[p].pc \in {"publish", "publishCompleted"}
  /\ Throw(p, "PublishFailed")
  /\ UNCHANGED <<redis, schedules, events, budget>>

\* -------------------------------------------------- processEarlyRepayment
\* outstandingAmount * penaltyRate
penaltyOf(outstandingAmount) == F64MulPenaltyRate(outstandingAmount)

\* earlyRepaymentUpdate settling the installments as well: every installment
\* is written as paid in full.
earlyRepaymentUpdateSettling(schedule, paymentAmount, penaltyAmount) ==
  [status |-> "completed",
   earlyRepayment |-> [isEarlyRepayment |-> TRUE,
                       earlyRepaymentAmount |-> paymentAmount,
                       penaltyAmount |-> penaltyAmount],
   installments |-> [i \in DOMAIN schedule.installments |->
                       [schedule.installments[i] EXCEPT
                          !.paidAmount = schedule.installments[i].totalAmount,
                          !.outstandingAmount = BigZero, !.status = "paid"]],
   summary |-> [schedule.summary EXCEPT
                  !.paidAmount = schedule.summary.totalAmount,
                  !.outstandingAmount = BigZero,
                  !.completedInstallments = schedule.summary.numberOfInstallments]]

earlyRepaymentUpdate(schedule, paymentAmount, penaltyAmount) ==
  [status |-> "completed",
   earlyRepayment |-> [isEarlyRepayment |-> TRUE,
                       earlyRepaymentAmount |-> paymentAmount,
                       penaltyAmount |-> penaltyAmount],
   summary |-> [schedule.summary EXCEPT
                  !.paidAmount = schedule.summary.totalAmount,
                  !.outstandingAmount = BigZero,
                  !.completedInstallments = schedule.summary.numberOfInstallments]]

\* EarlyRepaymentRead with the amount checked against outstandingAmount
\* instead of totalRequired.
EarlyRepaymentReadNoPenalty(p) ==
  LET c == calls[p]
      schedule == findById(c.scheduleId) IN
  /\ c.pc = "earlyRead"
  /\ IF schedule = Null
     THEN Throw(p, "NotFound")
     ELSE IF F64Less(c.paymentAmount, schedule.summary.outstandingAmount)
          THEN calls' = [calls EXCEPT ![p].outcome = "INSUFFICIENT_AMOUNT",
                                      ![p].pc = "release", ![p].readDone = TRUE,
                                      ![p].readVersion = schedule.version]
          ELSE calls' = [calls EXCEPT
                 ![p].updateData = earlyRepaymentUpdate(schedule, c.paymentAmount,
                                     penaltyOf(schedule.summary.outstandingAmount)),
                 ![p].readDone = TRUE,
                 ![p].readVersion = schedule.version,
                 ![p].pc = "write"]
  /\ UNCHANGED <<redis, schedules, events, budget>>

\* processEarlyRepayment's callback up to repository.update: findById, the
\* penalty and the amount check. The schedule's status is not looked at.
EarlyRepaymentRead(p) ==
  LET c == calls[p]
      schedule == findById(c.scheduleId) IN
  /\ c.pc = "earlyRead"
  /\ IF schedule = Null
     THEN Throw(p, "NotFound")
     ELSE LET outstandingAmount == schedule.summary.outstandingAmount
              penaltyAmount == penaltyOf(outstandingAmount)
              totalRequired == F64Add(outstandingAmount, penaltyAmount)
          IN IF F64Less(c.paymentAmount, totalRequired)
             THEN calls' = [calls EXCEPT ![p].outcome = "INSUFFICIENT_AMOUNT",
                                         ![p].pc = "release", ![p].readDone = TRUE,
                                         ![p].readVersion = schedule.version]
             ELSE calls' = [calls EXCEPT
                    ![p].updateData = earlyRepaymentUpdate(schedule, c.paymentAmount,
                                                           penaltyAmount),
                    ![p].readDone = TRUE,
                    ![p].readVersion = schedule.version,
                    ![p].pc = "write"]
  /\ UNCHANGED <<redis, schedules, events, budget>>

\* ------------------------------------ generateScheduleFromDisbursement
\* The amortization plan of each loan (calculateInstallments is a function of
\* the loan alone)
InstallmentsOfLoan ==
  [loanId \in DOMAIN Loans |->
     calculateInstallments(Loans[loanId].amount, Loans[loanId].interestRate,
                           Loans[loanId].term)]

\* this.calculateSummary(installments) of each loan's plan
SummaryOfLoan ==
  [loanId \in DOMAIN Loans |-> calculateSummary(InstallmentsOfLoan[loanId])]

NewSchedule(did) ==
  LET disbursement == Disbursements[did]
      loan == Loans[disbursement.loanApplicationId]
      installments == InstallmentsOfLoan[disbursement.loanApplicationId]
  IN [loanApplicationId |-> disbursement.loanApplicationId,
      disbursementId |-> did,
      loanDetails |-> [principalAmount |-> loan.amount, interestRate |-> loan.interestRate,
                       term |-> loan.term],
      installments |-> installments,
      summary |-> SummaryOfLoan[disbursement.loanApplicationId],
      status |-> "active",
      nextPaymentDate |-> installments[1].dueDate,
      earlyRepayment |-> [isEarlyRepayment |-> FALSE, earlyRepaymentAmount |-> BigZero,
                          penaltyAmount |-> BigZero],
      version |-> 0]

\* disbursementRepository.findById and loanRepository.findById
findDisbursement(did) == IF did \in DOMAIN Disbursements THEN Disbursements[did] ELSE Null
findLoan(loanId) == IF loanId \in DOMAIN Loans THEN Loans[loanId] ELSE Null

\* The callback up to repository.create: the disbursement and the loan are
\* looked up, and findByLoanApplicationId decides between Conflict and going on.
GenerateRead(p) ==
  LET c == calls[p]
      disbursement == findDisbursement(c.disbursementId) IN
  /\ c.pc = "genRead"
  /\ IF disbursement = Null
     THEN Throw(p, "NotFound")
     ELSE IF findLoan(disbursement.loanApplicationId) = Null
     THEN Throw(p, "NotFound")
     ELSE IF findByLoanApplicationId(disbursement.loanApplicationId) # Null
     THEN calls' = [calls EXCEPT ![p].outcome = "SCHEDULE_ALREADY_EXISTS",
                                 ![p].pc = "release", ![p].readDone = TRUE]
     ELSE calls' = [calls EXCEPT ![p].readDone = TRUE, ![p].pc = "create"]
  /\ UNCHANGED <<redis, schedules, events, budget>>

\* The schema's validation of a new document: a NaN is not cast to Number,
\* and summary.numberOfInstallments and loanDetails.term have min: 1. (The
\* amounts' min: 0 holds of every amount of the model.)
ValidationFails(doc) ==
  \/ \E i \in DOMAIN doc.installments :
       \E f \in {"principalAmount", "interestAmount", "totalAmount", "paidAmount",
                 "outstandingAmount"} : IsNaNd(doc.installments[i][f])
  \/ \E f \in {"totalPrincipal", "totalInterest", "totalAmount", "paidAmount",
                "outstandingAmount"} : IsNaNd(doc.summary[f])
  \/ doc.summary.numberOfInstallments < 1
  \/ doc.loanDetails.term < 1

\* The rest of the callback up to the publish: the installments and the
\* summary are computed and the document is put together (the last
\* installment of an empty plan is undefined: a TypeError); repository.create: entity.save()
\* validates and inserts the document unless the unique index on
\* loanApplicationId rejects it (E11000 duplicate key).
GenerateCreate(p) ==
  LET c == calls[p]
      loanId == Disbursements[c.disbursementId].loanApplicationId IN
  /\ c.pc = "create"
  /\ IF InstallmentsOfLoan[loanId] = <<>>
     THEN /\ Throw(p, "TypeError")
          /\ UNCHANGED schedules
     ELSE IF ValidationFails(NewSchedule(c.disbursementId))
     THEN /\ Throw(p, "ValidationError")
          /\ UNCHANGED schedules
     ELSE IF UniqueIndexViolated(loanId)
     THEN /\ Throw(p, "DuplicateKey")
          /\ UNCHANGED schedules
     ELSE /\ Len(schedules) < MaxSchedules
          /\ schedules' = Append(schedules, NewSchedule(c.disbursementId))
          /\ calls' = [calls EXCEPT ![p].wrote = TRUE, ![p].pc = "publish",
                                    ![p].scheduleId = Len(schedules) + 1]
  /\ UNCHANGED <<redis, events, budget>>

\* ------------------------------------------------------------ the system
\* The services are constructed over the database as it stands: no schedule
\* yet, or the schedule of the loan as generateScheduleFromDisbursement
\* stored it for disbursement D1. No call is in progress and no lock is held.
Init ==
  /\ redis = [k \in Keys |-> 0]
  /\ schedules \in {<<>>, <<NewSchedule("D1")>>}
  /\ events = [e \in EventTypes \X (1..MaxSchedules) |-> 0]
  /\ calls = [p \in Procs |-> IdleCall]
  /\ budget = MaxCalls
  /\ NoRepayments

Next ==
  \/ \E p \in Procs : CallRecordPayment(p) /\ LedgerOnly
  \/ \E p \in Procs : CallProcessEarlyRepayment(p) /\ LedgerOnly
  \/ \E p \in Procs : CallGenerateSchedule(p) /\ LedgerOnly
  \/ \E p \in Procs : AcquireSuccess(p) /\ LedgerOnly
  \/ \E p \in Procs : AcquireFail(p) /\ LedgerOnly
  \/ \E p \in Procs : RecordPaymentRead(p) /\ LedgerOnly
  \/ \E p \in Procs : EarlyRepaymentRead(p) /\ LedgerOnly
  \/ \E p \in Procs : RepositoryUpdate(p) /\ LedgerOnly
  \/ \E p \in Procs : GenerateRead(p) /\ LedgerOnly
  \/ \E p \in Procs : GenerateCreate(p) /\ LedgerOnly
  \/ \E p \in Procs : PublishOk(p) /\ LedgerOnly
  \/ \E p \in Procs : PublishCompletedOk(p) /\ LedgerOnly
  \/ \E p \in Procs : PublishFail(p) /\ LedgerOnly
  \/ \E p \in Procs : Release(p) /\ LedgerOnly
  \/ \E k \in Keys : Expire(k) /\ LedgerOnly

Spec == Init /\ [][Next]_vars

\* ------------------------------------------------- one request at a time
\* The requests of a single client that waits for each answer before it sends
\* the next: worker Client runs one call after the other, through the same
\* steps as above.
Client == 1

\* Amounts the client pays: part of an installment, one installment of L1, more
\* than any schedule's debt, and what the schedule's summary says is outstanding.
PartialAmount == F64OfCents(116)
OverAmount == F64OfCents(2000 * 100)
OutstandingOf(sid) ==
  IF sid \in DOMAIN schedules THEN {schedules[sid].summary.outstandingAmount} ELSE {}
SeqPayAmounts(sid) == {PartialAmount, InstallmentTotal, OverAmount} \cup OutstandingOf(sid)
\* early repayments: enough for L1 and L4 with the penalty, a cent less than L1's
\* debt with the penalty, and the outstanding amount itself
SeqEarlyAmounts(sid) ==
  {F64OfCents(1400 * 100), F64OfCents(131655)} \cup OutstandingOf(sid)

SeqRecordPayment ==
  \E sid \in ScheduleIds : \E amt \in SeqPayAmounts(sid) :
    StartCall(Client, "recordPayment", PaymentKey(sid), sid, amt, "")

SeqProcessEarlyRepayment ==
  \E sid \in ScheduleIds : \E amt \in SeqEarlyAmounts(sid) :
    StartCall(Client, "processEarlyRepayment", EarlyKey(sid), sid, amt, "")

SeqGenerateSchedule ==
  \E did \in DOMAIN Disbursements :
    StartCall(Client, "generateScheduleFromDisbursement", GenerateKey(did), 0, BigZero, did)

\* The call has returned to the client, which may send its next request.
SeqAnswered ==
  /\ calls[Client].pc = "returned"
  /\ budget > 0
  /\ calls' = [calls EXCEPT ![Client] = IdleCall]
  /\ UNCHANGED <<redis, schedules, events, budget>>

\* The database holds no schedule, or the schedule of L1 or of L4 as
\* generateScheduleFromDisbursement stores it.
InitSeq ==
  /\ redis = [k \in Keys |-> 0]
  /\ schedules \in {<<>>, <<NewSchedule("D1")>>, <<NewSchedule("D5")>>}
  /\ events = [e \in EventTypes \X (1..MaxSchedules) |-> 0]
  /\ calls = [p \in Procs |-> IdleCall]
  /\ budget = MaxSeqCalls
  /\ NoRepayments

NextSeq ==
  \/ SeqRecordPayment /\ LedgerOnly
  \/ SeqProcessEarlyRepayment /\ LedgerOnly
  \/ SeqGenerateSchedule /\ LedgerOnly
  \/ RecordPaymentRead(Client) /\ LedgerOnly
  \/ EarlyRepaymentRead(Client) /\ LedgerOnly
  \/ RepositoryUpdate(Client) /\ LedgerOnly
  \/ GenerateRead(Client) /\ LedgerOnly
  \/ GenerateCreate(Client) /\ LedgerOnly
  \/ PublishOk(Client) /\ LedgerOnly
  \/ PublishCompletedOk(Client) /\ LedgerOnly
  \/ PublishFail(Client) /\ LedgerOnly
  \/ Release(Client) /\ LedgerOnly
  \/ SeqAnswered /\ LedgerOnly

SpecSeq == InitSeq /\ [][NextSeq]_vars

\* ------------------------------------------------------------ properties
Returned(p) == calls[p].pc = "returned"
IsLedgerOp(p) == calls[p].op \in {"recordPayment", "processEarlyRepayment"}
AllPaid(schedule) ==
  \A i \in DOMAIN schedule.installments : schedule.installments[i].status = "paid"

\* recordPayment call p is between the return of its findById and its
\* repository.update
InSection(p) == calls[p].op = "recordPayment" /\ calls[p].pc = "write"

\* Step of worker p that applies its repository.update
WriteStep(p) == calls[p].pc = "write" /\ calls'[p].pc = "publish"

\* C1: when two recordPayment calls on the same schedule, each paying one
\* installment's total, have both returned the updated schedule, the two
\* installments are both paid and summary.paidAmount counts both payments
\* (no update is lost).
C1_NoLostUpdate ==
  \A p, q \in Procs :
    ( /\ p # q
      /\ Returned(p) /\ Returned(q)
      /\ calls[p].op = "recordPayment" /\ calls[q].op = "recordPayment"
      /\ calls[p].scheduleId = calls[q].scheduleId
      /\ calls[p].paymentAmount = InstallmentTotal
      /\ calls[q].paymentAmount = InstallmentTotal
      /\ calls[p].result = "ok" /\ calls[q].result = "ok" )
    => LET schedule == schedules[calls[p].scheduleId] IN
       /\ schedule.installments[1].status = "paid"
       /\ schedule.installments[2].status = "paid"
       /\ F64GreaterEq(schedule.summary.paidAmount, F64Add(InstallmentTotal, InstallmentTotal))

\* C2: at most one recordPayment call per schedule is inside its
\* read-modify-write section.
C2_SectionsNeverOverlap ==
  \A p, q \in Procs :
    (p # q /\ InSection(p) /\ InSection(q)) => calls[p].scheduleId # calls[q].scheduleId

\* C3: a schedule whose persisted status is completed stays completed.
C3_CompletedIsTerminal ==
  [][\A sid \in DOMAIN schedules :
       schedules[sid].status = "completed" => schedules'[sid].status = "completed"]_vars

\* C4: a schedule is completed if and only if every one of its installments
\* is paid.
C4_CompletedIffAllPaid ==
  \A sid \in DOMAIN schedules :
    schedules[sid].status = "completed" <=> AllPaid(schedules[sid])

C6_StaleWriteRejected ==
  [][\A p \in Procs :
       WriteStep(p) => schedules[calls[p].scheduleId].version = calls[p].readVersion]_vars

\* C7: a recordPayment or processEarlyRepayment call that failed has not
\* changed the schedule's version; a successful one has added exactly 1 and
\* the version never decreases.
C7_VersionStepsWithSuccess ==
  /\ [][\A sid \in DOMAIN schedules :
          /\ schedules'[sid].version >= schedules[sid].version
          /\ schedules'[sid].version <= schedules[sid].version + 1]_vars
  /\ [](\A p \in Procs :
          (Returned(p) /\ IsLedgerOp(p)) => (calls[p].wrote <=> calls[p].result = "ok"))

\* C8: a call that acquired the lock has deleted its key when it returns,
\* whether the callback returned or threw, and returns what the callback
\* returned or threw.
C8_ReleasedBeforeReturn ==
  \A p \in Procs :
    (Returned(p) /\ calls[p].acquired) =>
      /\ calls[p].released
      /\ redis[calls[p].key] # p
      /\ calls[p].result = calls[p].outcome

C8_Witness ==
  \E p, q \in Procs :
    /\ Returned(p) /\ calls[p].acquired /\ calls[p].released
    /\ calls[p].result \in {"NotFound", "INACTIVE_SCHEDULE", "INSUFFICIENT_AMOUNT",
                           "SCHEDULE_ALREADY_EXISTS", "PublishFailed"}
    /\ Returned(q) /\ calls[q].acquired /\ calls[q].result = "ok"

C10_NoCommitAfterExpiry ==
  [][\A p \in Procs : (WriteStep(p) /\ IsLedgerOp(p)) => ~calls[p].leaseExpired]_vars

\* ----------------------------------------- properties of single requests
\* the exact sum of a field over the installments (no rounding)
RECURSIVE ExactSumFrom(_, _, _)
ExactSumFrom(insts, f, i) ==
  IF i > Len(insts) THEN BigZero ELSE BigAdd(insts[i][f], ExactSumFrom(insts, f, i + 1))
ExactSum(insts, f) == ExactSumFrom(insts, f, 1)

\* The client's recordPayment / processEarlyRepayment applies its update in
\* this step.
SeqWrite(op) ==
  /\ calls[Client].op = op
  /\ calls[Client].pc = "write"
  /\ calls'[Client].pc = "publish"

ClientSchedule == schedules[calls[Client].scheduleId]
ClientScheduleAfter == schedules'[calls[Client].scheduleId]

\* C11: every installment of every stored schedule has
\* paidAmount + outstandingAmount = totalAmount (the amounts are non-negative
\* numbers).
C11_InstallmentBalance ==
  \A sid \in DOMAIN schedules : \A i \in DOMAIN schedules[sid].installments :
    LET inst == schedules[sid].installments[i] IN
    /\ ~IsNaNd(inst.paidAmount) /\ ~IsNaNd(inst.outstandingAmount)
    /\ F64Add(inst.paidAmount, inst.outstandingAmount) = inst.totalAmount

\* C12: a recordPayment of amount p raises the sum of the installments'
\* paidAmount by p less the remainder, i.e. by the smaller of p and the total
\* outstanding before the call.
C12_PaidSumGrowsByPayment ==
  [][SeqWrite("recordPayment") =>
       LET p == calls[Client].paymentAmount
           outstandingBefore == ExactSum(ClientSchedule.installments, "outstandingAmount")
           applied == IF BigLess(outstandingBefore, p) THEN outstandingBefore ELSE p
       IN ExactSum(ClientScheduleAfter.installments, "paidAmount")
            = BigAdd(ExactSum(ClientSchedule.installments, "paidAmount"), applied)]_vars

\* C13: in installmentNumber order the statuses are paid ones, then at most
\* one partially_paid, then pending ones; a recordPayment changes installment
\* k only if every installment before k is paid afterwards, and changes no
\* installment after one it leaves partially paid.
C13_OldestFirst ==
  /\ [](\A sid \in DOMAIN schedules :
          \A i, j \in DOMAIN schedules[sid].installments :
            (i < j /\ schedules[sid].installments[j].status # "pending")
              => schedules[sid].installments[i].status = "paid")
  /\ [][SeqWrite("recordPayment") =>
          LET before == ClientSchedule.installments
              after == ClientScheduleAfter.installments
          IN \A k \in DOMAIN before :
               after[k] # before[k] =>
                 /\ \A j \in DOMAIN before : j < k => after[j].status = "paid"
                 /\ after[k].status = "partially_paid" =>
                      \A j \in DOMAIN before : j > k => after[j] = before[j]]_vars

C13_Witness ==
  /\ 1 \in DOMAIN schedules
  /\ Len(schedules[1].installments) = 3
  /\ schedules[1].installments[1].status = "paid"
  /\ schedules[1].installments[2].status = "partially_paid"
  /\ schedules[1].installments[3].status = "pending"
  /\ schedules[1].version = 2

\* C14: a recordPayment on an active schedule whose (positive) amount is the
\* schedule's summary.outstandingAmount leaves every installment paid,
\* summary.outstandingAmount 0 and the status completed.
C14_PayoffCompletes ==
  [][( /\ SeqWrite("recordPayment")
       /\ calls[Client].paymentAmount = ClientSchedule.summary.outstandingAmount
       /\ calls[Client].paymentAmount # BigZero )
     => /\ AllPaid(ClientScheduleAfter)
        /\ ClientScheduleAfter.summary.outstandingAmount = BigZero
        /\ ClientScheduleAfter.status = "completed"]_vars

\* C15: recordPayment throws NotFound when the schedule does not exist and
\* INACTIVE_SCHEDULE when its status is not active; such a call changes no
\* schedule and publishes nothing, and returns that error.
C15_RejectedPaymentChangesNothing ==
  /\ [][(calls[Client].op = "recordPayment" /\ calls[Client].pc = "read") =>
          LET sid == calls[Client].scheduleId IN
          /\ sid \notin DOMAIN schedules =>
               calls'[Client].outcome = "NotFound" /\ calls'[Client].pc = "release"
          /\ (sid \in DOMAIN schedules /\ schedules[sid].status # "active") =>
               calls'[Client].outcome = "INACTIVE_SCHEDULE" /\ calls'[Client].pc = "release"]_vars
  /\ [][( /\ calls[Client].op = "recordPayment"
          /\ \/ calls[Client].pc = "read"
             \/ calls[Client].outcome \in {"NotFound", "INACTIVE_SCHEDULE"}
          /\ calls'[Client].op = "recordPayment"
          /\ calls'[Client].outcome \in {"NotFound", "INACTIVE_SCHEDULE"} )
        => /\ schedules' = schedules /\ events' = events
           /\ ~calls'[Client].wrote /\ calls'[Client].published = <<>>
           /\ calls'[Client].result \in {"none", calls'[Client].outcome}]_vars

C15_Witness ==
  /\ calls[Client].op = "recordPayment" /\ Returned(Client)
  /\ calls[Client].result = "INACTIVE_SCHEDULE"
  /\ schedules[calls[Client].scheduleId].status = "completed"

\* C16: processEarlyRepayment throws INSUFFICIENT_AMOUNT whenever
\* paymentAmount is less than 102% of summary.outstandingAmount (so whenever
\* it equals a positive outstandingAmount); such a call changes no schedule
\* and publishes nothing.
C16_EarlyRepaymentNeedsPenalty ==
  /\ [][(calls[Client].op = "processEarlyRepayment" /\ calls[Client].pc = "earlyRead"
           /\ calls[Client].scheduleId \in DOMAIN schedules) =>
          LET outstandingAmount == ClientSchedule.summary.outstandingAmount IN
          BigLess(BigMulSmall(calls[Client].paymentAmount, 100),
                  BigMulSmall(outstandingAmount, 102))
            => /\ calls'[Client].outcome = "INSUFFICIENT_AMOUNT"
               /\ calls'[Client].pc = "release"]_vars
  /\ [][( /\ calls'[Client].op = "processEarlyRepayment"
          /\ calls'[Client].outcome = "INSUFFICIENT_AMOUNT"
          /\ calls[Client].op = "processEarlyRepayment" )
        => /\ schedules' = schedules /\ events' = events
           /\ ~calls'[Client].wrote /\ calls'[Client].published = <<>>
           /\ calls'[Client].result \in {"none", "INSUFFICIENT_AMOUNT"}]_vars

C16_Witness ==
  /\ calls[Client].op = "processEarlyRepayment" /\ Returned(Client)
  /\ calls[Client].result = "INSUFFICIENT_AMOUNT"
  /\ calls[Client].paymentAmount = ClientSchedule.summary.outstandingAmount
  /\ calls[Client].paymentAmount # BigZero

\* C17: a recordPayment whose update was persisted returns the updated
\* schedule, whether or not its events could be published.
C17_PersistedPaymentSucceeds ==
  (calls[Client].op = "recordPayment" /\ Returned(Client) /\ calls[Client].wrote)
    => calls[Client].result = "ok"

\* a generateScheduleFromDisbursement call has gone through the amortization
\* of its loan (past the lookups and the existing-schedule check)
Amortized(p) ==
  /\ calls[p].op = "generateScheduleFromDisbursement"
  /\ calls[p].pc \in {"publish", "release", "returned"}
  /\ calls[p].readDone
  /\ calls[p].outcome # "SCHEDULE_ALREADY_EXISTS"

LoanOfCall(p) == Loans[Disbursements[calls[p].disbursementId].loanApplicationId]
PlanOfCall(p) == InstallmentsOfLoan[Disbursements[calls[p].disbursementId].loanApplicationId]
ValidLoan(loan) == loan.term >= 1 /\ loan.amount > 0 /\ loan.interestRate >= 0

\* C18: for a loan at rate 0 the generated plan has term installments of
\* defined amounts, each without interest, whose principal parts sum to the
\* principal, and the schedule is stored.
C18_ZeroRatePlan ==
  (Amortized(Client) /\ ValidLoan(LoanOfCall(Client)) /\ LoanOfCall(Client).interestRate = 0)
    => /\ Len(PlanOfCall(Client)) = LoanOfCall(Client).term
       /\ \A i \in DOMAIN PlanOfCall(Client) :
            /\ ~IsNaNd(PlanOfCall(Client)[i].principalAmount)
            /\ ~IsNaNd(PlanOfCall(Client)[i].totalAmount)
            /\ PlanOfCall(Client)[i].interestAmount = BigZero
       /\ ExactSum(PlanOfCall(Client), "principalAmount") = F64OfFixed(LoanOfCall(Client).amount)
       /\ calls[Client].wrote

C20_PrincipalPartsSumToPrincipal ==
  \A sid \in DOMAIN schedules :
    ( /\ schedules[sid].loanDetails.term >= 1
      /\ schedules[sid].loanDetails.principalAmount > 0
      /\ schedules[sid].loanDetails.interestRate >= 0 ) =>
      ExactSum(schedules[sid].installments, "principalAmount")
        = F64OfFixed(schedules[sid].loanDetails.principalAmount)

\* ------------------------------------------- early repayment and events
\* |a - b| is at most 2^-30
CloseTo(a, b) ==
  LET tolerance == BigShiftLeft(BigOfInt(1), FracBits - 30) IN
  IF BigLess(a, b) THEN ~BigLess(tolerance, BigSub(b, a))
  ELSE ~BigLess(tolerance, BigSub(a, b))

\* C23: a processEarlyRepayment that persists its update sets status =
\* completed, earlyRepayment.isEarlyRepayment = TRUE with penaltyAmount = 2% of
\* the outstanding amount it read (as a double: 50 times the penalty is the
\* outstanding amount up to rounding), summary paidAmount = totalAmount,
\* outstandingAmount = 0, completedInstallments = numberOfInstallments, and
\* leaves the installments exactly as they were.
C23_EarlyRepaymentFrame ==
  [][SeqWrite("processEarlyRepayment") =>
       LET before == ClientSchedule
           after == ClientScheduleAfter IN
       /\ after.status = "completed"
       /\ after.earlyRepayment.isEarlyRepayment
       /\ after.earlyRepayment.penaltyAmount = penaltyOf(before.summary.outstandingAmount)
       /\ CloseTo(BigMulSmall(after.earlyRepayment.penaltyAmount, 50),
                  before.summary.outstandingAmount)
       /\ after.summary.totalAmount = before.summary.totalAmount
       /\ after.summary.paidAmount = before.summary.totalAmount
       /\ after.summary.outstandingAmount = BigZero
       /\ after.summary.numberOfInstallments = before.summary.numberOfInstallments
       /\ after.summary.completedInstallments = before.summary.numberOfInstallments
       /\ after.installments = before.installments]_vars

\* an early repayment was applied to a schedule with a partially paid
\* installment, which stays partially paid
C23_Witness ==
  /\ calls[Client].op = "processEarlyRepayment" /\ calls[Client].wrote
  /\ ClientSchedule.status = "completed"
  /\ ClientSchedule.earlyRepayment.isEarlyRepayment
  /\ ClientSchedule.earlyRepayment.penaltyAmount # BigZero
  /\ ClientSchedule.summary.outstandingAmount = BigZero
  /\ \E i \in DOMAIN ClientSchedule.installments :
       ClientSchedule.installments[i].status = "partially_paid"

\* ------------------------------------------ calls on a half-paid schedule
\* The schedule of L1 after a recordPayment of one installment's total: the
\* installments the allocation leaves (the first is paid, the second is
\* pending), the $set built from them and the document after the update.
HalfPaidInstallments == Allocate(InstallmentsOfLoan["L1"], InstallmentTotal).installments
HalfPaidUpdate == recordPaymentUpdate(NewSchedule("D1"), HalfPaidInstallments)
HalfPaidSchedule == ApplyUpdate(NewSchedule("D1"), HalfPaidUpdate)

\* The concurrent callers of Spec, arriving when the first installment of L1's
\* schedule has been paid (or when there is no schedule yet).
InitHalfPaid ==
  /\ redis = [k \in Keys |-> 0]
  /\ schedules \in {<<>>, <<HalfPaidSchedule>>}
  /\ events = [e \in EventTypes \X (1..MaxSchedules) |-> 0]
  /\ calls = [p \in Procs |-> IdleCall]
  /\ budget = MaxCalls
  /\ NoRepayments

SpecHalfPaid == InitHalfPaid /\ [][Next]_vars

\* C24: a recordPayment that returns successfully has published exactly one
\* repayment_schedule.payment_recorded, after its update was persisted, and
\* it publishes repayment_schedule.completed in the same call if and only if
\* its update changed the schedule's status from active to completed.
C24_EventsFollowTheWrite ==
  [][\A p \in Procs :
       /\ (calls[p].op = "recordPayment" /\ calls'[p].published # calls[p].published)
            => calls[p].wrote
       /\ (calls[p].op = "recordPayment" /\ calls[p].pc = "release"
             /\ calls[p].outcome = "ok" /\ calls'[p].pc = "returned")
            => calls[p].published =
                 IF calls[p].updateData.status = "completed"
                 THEN <<"repayment_schedule.payment_recorded", "repayment_schedule.completed">>
                 ELSE <<"repayment_schedule.payment_recorded">>
       /\ (calls[p].op = "recordPayment" /\ WriteStep(p))
            \* the update's status decides whether completed is published
            => (calls[p].updateData.status = "completed"
                  <=> /\ schedules[calls[p].scheduleId].status = "active"
                      /\ schedules'[calls[p].scheduleId].status = "completed")]_vars

\* ------------------------------------------------- payments and summary
\* C25: a recordPayment whose amount exceeds the schedule's total
\* outstanding is accepted, marks every installment paid and the schedule
\* completed, and drops the excess; in every reachable state no
\* installment's paidAmount exceeds its totalAmount and summary.paidAmount
\* does not exceed summary.totalAmount.
C25_ExcessIsDiscarded ==
  /\ [][(SeqWrite("recordPayment")
           /\ BigLess(ExactSum(ClientSchedule.installments, "outstandingAmount"),
                      calls[Client].paymentAmount))
          => /\ AllPaid(ClientScheduleAfter)
             /\ ClientScheduleAfter.status = "completed"]_vars
  /\ [](\A sid \in DOMAIN schedules :
          /\ \A i \in DOMAIN schedules[sid].installments :
               ~BigLess(schedules[sid].installments[i].totalAmount,
                        schedules[sid].installments[i].paidAmount)
          /\ ~BigLess(schedules[sid].summary.totalAmount, schedules[sid].summary.paidAmount))

\* C26: after every recordPayment that persisted its update the stored
\* summary agrees with the stored installments: paidAmount is the sum of the
\* installments' paidAmount, outstandingAmount the sum of their
\* outstandingAmount (sums as the program adds numbers), completedInstallments
\* the number of paid installments, and numberOfInstallments is what it was
\* at creation.
C26_SummaryIsTheSum ==
  [][SeqWrite("recordPayment") =>
       LET after == ClientScheduleAfter IN
       /\ after.summary.paidAmount = SumField(after.installments, "paidAmount")
       /\ after.summary.outstandingAmount = SumField(after.installments, "outstandingAmount")
       /\ after.summary.completedInstallments = CountStatus(after.installments, "paid")
       /\ after.summary.numberOfInstallments = ClientSchedule.summary.numberOfInstallments
       /\ after.summary.numberOfInstallments
            = Len(NewSchedule(after.disbursementId).installments)]_vars

\* C26 as amended: paidAmount and outstandingAmount are those sums rounded to
\* two decimals; the counts are as claimed.
C26_SummaryIsTheRoundedSum ==
  [][SeqWrite("recordPayment") =>
       LET after == ClientScheduleAfter IN
       /\ after.summary.paidAmount = F64Round2(SumField(after.installments, "paidAmount"))
       /\ after.summary.outstandingAmount
            = F64Round2(SumField(after.installments, "outstandingAmount"))
       /\ after.summary.completedInstallments = CountStatus(after.installments, "paid")
       /\ after.summary.numberOfInstallments = ClientSchedule.summary.numberOfInstallments
       /\ after.summary.numberOfInstallments
            = Len(NewSchedule(after.disbursementId).installments)]_vars

\* a payment was persisted after which the rounding matters: the stored
\* paidAmount is not the unrounded sum, and an installment is partially paid
C26_Witness ==
  /\ calls[Client].op = "recordPayment" /\ calls[Client].wrote
  /\ calls[Client].result = "ok"
  /\ ClientSchedule.summary.outstandingAmount
       # SumField(ClientSchedule.installments, "outstandingAmount")
  /\ \E i \in DOMAIN ClientSchedule.installments :
       ClientSchedule.installments[i].status = "partially_paid"

\* C27: after every recordPayment that persisted its update, the stored
\* nextPaymentDate is the due date of the lowest-numbered installment that is
\* pending or partially_paid, and the schedule has no nextPaymentDate when
\* every installment is paid.
C27_NextPaymentDateFollows ==
  [][SeqWrite("recordPayment") =>
       LET after == ClientScheduleAfter
           open == {i \in DOMAIN after.installments : IsOpen(after.installments[i])}
       IN IF open # {}
          THEN /\ "nextPaymentDate" \in DOMAIN after
               /\ after.nextPaymentDate =
                    after.installments[CHOOSE i \in open : \A j \in open : i <= j].dueDate
          ELSE "nextPaymentDate" \notin DOMAIN after]_vars

\* C28: processEarlyRepayment changes a schedule only if its status is
\* active: on a completed schedule the call fails, earlyRepayment, summary,
\* status and version stay as they are, and so
\* repayment_schedule.early_repayment is published at most once per schedule.
C28_EarlyRepaymentOnlyOnActive ==
  /\ [][(calls[Client].op = "processEarlyRepayment" /\ calls[Client].pc = "earlyRead"
           /\ calls[Client].scheduleId \in DOMAIN schedules
           /\ ClientSchedule.status # "active")
          => /\ calls'[Client].pc = "release"
             /\ calls'[Client].outcome \notin {"none", "ok"}]_vars
  /\ [][SeqWrite("processEarlyRepayment") =>
          \/ ClientSchedule.status = "active"
          \/ /\ ClientScheduleAfter.earlyRepayment = ClientSchedule.earlyRepayment
             /\ ClientScheduleAfter.summary = ClientSchedule.summary
             /\ ClientScheduleAfter.status = ClientSchedule.status
             /\ ClientScheduleAfter.version = ClientSchedule.version]_vars
  /\ [](\A sid \in 1..MaxSchedules :
          events[<<"repayment_schedule.early_repayment", sid>>] <= 1)

\* ------------------------------------------------------ the lock's owner
\* caller p is between a successful acquire and its release of key k
HoldsLock(p, k) == calls[p].key = k /\ calls[p].acquired /\ ~calls[p].released

\* C30: a release issued by one caller never removes a key that another
\* caller's acquire created and that is still there, and for each key at most
\* one caller holds the lock in any reachable state (also when the first
\* holder's TTL has expired and another caller has acquired the key).
C30_ReleaseOnlyOwnLock ==
  /\ [][\A p \in Procs :
          (calls[p].pc = "release" /\ calls'[p].pc = "returned")
            => redis[calls[p].key] \in {0, p}]_vars
  /\ [](\A k \in Keys : \A p, q \in Procs :
          (HoldsLock(p, k) /\ HoldsLock(q, k)) => p = q)

\* ======================================================= RepaymentService
\* The loan a payer names.
PayLoanIds == {"L1"}
\* ids a caller may ask a refund for: the first document of the collection
RepaymentIds == {1}

RepaymentKey(loanId) == <<"repayment", loanId>>
RefundKey(rid) == <<"repayment:refund", rid>>
RequestKeys == {RepaymentKey(loanId) : loanId \in PayLoanIds}
               \cup {RefundKey(rid) : rid \in RepaymentIds}

RepaymentEventTypes == {"repayment.completed", "repayment.refunded"}

\* loanRepository.findById
findLoanApplication(loanId) ==
  IF loanId \in DOMAIN loans THEN [id |-> loanId, status |-> loans[loanId]] ELSE Null

\* RepaymentModel.findById
findRepayment(rid) == IF rid \in DOMAIN repayments THEN repayments[rid] ELSE Null

\* the id of the schedule getScheduleByLoanId returns
scheduleIdOfLoan(loanId) ==
  CHOOSE i \in DOMAIN schedules :
    /\ schedules[i].loanApplicationId = loanId
    /\ \A j \in DOMAIN schedules : schedules[j].loanApplicationId = loanId => i <= j

\* schedule.installments.find(pending or partially_paid)
nextInstallmentOf(schedule) ==
  IF \E i \in DOMAIN schedule.installments : IsOpen(schedule.installments[i])
  THEN schedule.installments[CHOOSE i \in DOMAIN schedule.installments :
          /\ IsOpen(schedule.installments[i])
          /\ \A j \in DOMAIN schedule.installments :
               IsOpen(schedule.installments[j]) => i <= j]
  ELSE Null

\* The document processPayment creates.
NewRepayment(loanId, amount, nextInstallment) ==
  [loanApplicationId |-> loanId, amount |-> amount,
   principalAmount |-> nextInstallment.principalAmount,
   interestAmount |-> nextInstallment.interestAmount,
   dueDate |-> nextInstallment.dueDate,
   status |-> "completed",
   notes |-> 0]      \* number of "| Refunded: reason" parts of the notes

\* A RepaymentService call starts: executeWithLock is entered and the first
\* iteration of DistributedLock.acquire's loop issues its SET NX.
RequestStart(r, op, k, loanId, amt, rid) ==
  /\ requests[r].pc = "idle"
  /\ \A q \in Requests : q < r => requests[q].pc # "idle"
  /\ IF acquireLock(k)
     THEN /\ redis' = [redis EXCEPT ![k] = r]
          /\ requests' = [requests EXCEPT ![r] =
                [IdleRequest EXCEPT !.op = op, !.key = k, !.loanApplicationId = loanId,
                                    !.amount = amt, !.repaymentId = rid,
                                    !.pc = IF op = "processPayment" THEN "payRead"
                                           ELSE "refundRead",
                                    !.acquired = TRUE]]
     ELSE /\ redis' = redis
          /\ requests' = [requests EXCEPT ![r] =
                [IdleRequest EXCEPT !.op = op, !.key = k, !.loanApplicationId = loanId,
                                    !.amount = amt, !.repaymentId = rid,
                                    !.pc = "acquire", !.retries = 1]]
  /\ UNCHANGED <<schedules, events, calls, budget, loans, repayments>>

CallProcessPayment(r) ==
  \E loanId \in PayLoanIds, amt \in PayAmounts :
    RequestStart(r, "processPayment", RepaymentKey(loanId), loanId, amt, 0)

CallProcessRefund(r) ==
  \E rid \in RepaymentIds :
    RequestStart(r, "processRefund", RefundKey(rid), "", BigZero, rid)

\* A later iteration of acquire's loop that obtains the key.
RequestAcquireSuccess(r) ==
  LET c == requests[r] IN
  /\ c.pc = "acquire"
  /\ acquireLock(c.key)
  /\ redis' = [redis EXCEPT ![c.key] = r]
  /\ requests' = [requests EXCEPT ![r].acquired = TRUE,
                    ![r].pc = IF c.op = "processPayment" THEN "payRead" ELSE "refundRead"]
  /\ UNCHANGED <<schedules, events, calls, budget, loans, repayments>>

\* A later iteration that finds the key taken; after maxRetries attempts
\* executeWithLock throws without calling the callback.
RequestAcquireFail(r) ==
  LET c == requests[r] IN
  /\ c.pc = "acquire"
  /\ ~acquireLock(c.key)
  /\ requests' = [requests EXCEPT ![r] =
        IF c.retries + 1 < MaxRetries
        THEN [c EXCEPT !.retries = c.retries + 1]
        ELSE [c EXCEPT !.retries = c.retries + 1, !.pc = "returned",
                       !.result = "LockAcquisitionFailed"]]
  /\ UNCHANGED <<redis, schedules, events, calls, budget, loans, repayments>>

\* The finally block of executeWithLock: DEL key, then the callback's result
\* or error goes to the caller.
RequestRelease(r) ==
  LET c == requests[r] IN
  /\ c.pc = "release"
  /\ redis' = [redis EXCEPT ![c.key] = 0]
  /\ requests' = [requests EXCEPT ![r].released = TRUE, ![r].pc = "returned",
                                  ![r].result = c.outcome]
  /\ UNCHANGED <<schedules, events, calls, budget, loans, repayments>>

\* The TTL of a RepaymentService key runs out while the key is still there.
ExpireRequestKey(k) ==
  /\ redis[k] # 0
  /\ redis' = [redis EXCEPT ![k] = 0]
  /\ UNCHANGED <<schedules, events, calls, budget, loans, repayments, requests>>

\* The callback of a request throws: the finally block runs next.
RequestThrow(r, err) ==
  requests' = [requests EXCEPT ![r].outcome = err, ![r].pc = "release"]

\* ---------------------------------------------------------- processPayment
\* The callback up to repository.create: the loan and its schedule are looked
\* up and the next open installment is found. The loan's status is not
\* looked at.
ProcessPaymentRead(r) ==
  LET c == requests[r]
      loan == findLoanApplication(c.loanApplicationId)
      schedule == findByLoanApplicationId(c.loanApplicationId) IN
  /\ c.pc = "payRead"
  /\ IF loan = Null THEN RequestThrow(r, "NotFound")
     ELSE IF schedule = Null THEN RequestThrow(r, "NotFound")
     ELSE IF nextInstallmentOf(schedule) = Null
     THEN RequestThrow(r, "NO_PENDING_INSTALLMENTS")
     ELSE requests' = [requests EXCEPT
            ![r].scheduleId = scheduleIdOfLoan(c.loanApplicationId),
            ![r].nextInstallment = nextInstallmentOf(schedule),
            ![r].pc = "payCreate"]
  /\ UNCHANGED <<redis, schedules, events, calls, budget, loans, repayments>>

\* repository.create of a repayment with status completed.
ProcessPaymentCreate(r) ==
  LET c == requests[r] IN
  /\ c.pc = "payCreate"
  /\ repayments' = Append(repayments,
                          NewRepayment(c.loanApplicationId, c.amount, c.nextInstallment))
  /\ requests' = [requests EXCEPT ![r].repaymentId = Len(repayments) + 1,
                                  ![r].wrote = TRUE, ![r].pc = "payLedger"]
  /\ UNCHANGED <<redis, schedules, events, calls, budget, loans>>

\* repaymentScheduleService.recordPayment is called: worker p runs it.
ProcessPaymentLedger(r) ==
  LET c == requests[r] IN
  /\ c.pc = "payLedger"
  /\ \E p \in Procs :
       /\ StartCall(p, "recordPayment", PaymentKey(c.scheduleId), c.scheduleId, c.amount, "")
       /\ requests' = [requests EXCEPT ![r].ledger = p, ![r].pc = "payWait"]
  /\ UNCHANGED <<loans, repayments>>

\* recordPayment has returned the updated schedule, or has thrown: its error
\* is not caught and leaves the callback.
ProcessPaymentLedgerReturn(r) ==
  LET c == requests[r] IN
  /\ c.pc = "payWait"
  /\ calls[c.ledger].pc = "returned"
  /\ IF calls[c.ledger].result = "ok"
     THEN requests' = [requests EXCEPT ![r].pc = "payPublish"]
     ELSE RequestThrow(r, calls[c.ledger].result)
  /\ UNCHANGED <<redis, schedules, events, calls, budget, loans, repayments>>

\* eventPublisher.publish of repayment.completed succeeds.
ProcessPaymentPublishOk(r) ==
  LET c == requests[r] IN
  /\ c.pc = "payPublish"
  /\ events' = [events EXCEPT ![<<"repayment.completed", c.repaymentId>>] = @ + 1]
  /\ requests' = [requests EXCEPT ![r].published = TRUE, ![r].outcome = "ok",
                                  ![r].pc = "release"]
  /\ UNCHANGED <<redis, schedules, calls, budget, loans, repayments>>

\* eventPublisher.publish rethrows what RabbitMQ throws.
RequestPublishFail(r) ==
  /\ requests[r].pc \in {"payPublish", "refundPublish"}
  /\ RequestThrow(r, "PublishFailed")
  /\ UNCHANGED <<redis, schedules, events, calls, budget, loans, repayments>>

\* ----------------------------------------------------------- processRefund
\* The callback up to repository.update: findById and the status check.
ProcessRefundRead(r) ==
  LET c == requests[r]
      repayment == findRepayment(c.repaymentId) IN
  /\ c.pc = "refundRead"
  /\ IF repayment = Null THEN RequestThrow(r, "NotFound")
     ELSE IF repayment.status # "completed" THEN RequestThrow(r, "INVALID_STATUS")
     ELSE requests' = [requests EXCEPT ![r].readNotes = repayment.notes,
                                       ![r].pc = "refundUpdate"]
  /\ UNCHANGED <<redis, schedules, events, calls, budget, loans, repayments>>

\* repository.update: $set of status refunded and of the notes read, with the
\* reason appended.
ProcessRefundUpdate(r) ==
  LET c == requests[r] IN
  /\ c.pc = "refundUpdate"
  /\ IF c.repaymentId \in DOMAIN repayments
     THEN /\ repayments' = [repayments EXCEPT ![c.repaymentId].status = "refunded",
                                              ![c.repaymentId].notes = c.readNotes + 1]
          /\ requests' = [requests EXCEPT ![r].wrote = TRUE, ![r].pc = "refundPublish"]
     ELSE /\ RequestThrow(r, "NotFound")
          /\ UNCHANGED repayments
  /\ UNCHANGED <<redis, schedules, events, calls, budget, loans>>

\* eventPublisher.publish of repayment.refunded succeeds.
ProcessRefundPublishOk(r) ==
  LET c == requests[r] IN
  /\ c.pc = "refundPublish"
  /\ events' = [events EXCEPT ![<<"repayment.refunded", c.repaymentId>>] = @ + 1]
  /\ requests' = [requests EXCEPT ![r].published = TRUE, ![r].outcome = "ok",
                                  ![r].pc = "release"]
  /\ UNCHANGED <<redis, schedules, calls, budget, loans, repayments>>

\* ------------------------------------------ RepaymentService with its ledger
\* The repayment processPayment stored for a payment of one installment of L1.
FirstRepayment ==
  NewRepayment("L1", InstallmentTotal, InstallmentsOfLoan["L1"][1])

\* The schedule of L1 after a processEarlyRepayment of 1400.00: completed,
\* with its installments still pending.
EarlyRepaidSchedule(schedule) ==
  [schedule EXCEPT
     !.status = "completed",
     !.earlyRepayment = earlyRepaymentUpdate(schedule, F64OfCents(1400 * 100),
                          penaltyOf(schedule.summary.outstandingAmount)).earlyRepayment,
     !.summary = earlyRepaymentUpdate(schedule, F64OfCents(1400 * 100), BigZero).summary,
     !.version = schedule.version + 1]

\* L1 is disbursed, its schedule is untouched and nothing has been repaid; or
\* L1 is active: its first installment has been paid through processPayment;
\* or L1's schedule has been settled by an early repayment. The ledger is
\* called by RepaymentService only.
InitRepayment ==
  /\ redis = [k \in Keys \cup RequestKeys |-> 0]
  /\ \/ /\ schedules = <<NewSchedule("D1")>>
        /\ repayments = <<>>
        /\ loans = [l \in DOMAIN Loans |-> "disbursed"]
     \/ /\ schedules = <<HalfPaidSchedule>>
        /\ repayments = <<FirstRepayment>>
        /\ loans = [l \in DOMAIN Loans |-> IF l = "L1" THEN "active" ELSE "disbursed"]
     \/ /\ schedules = <<EarlyRepaidSchedule(NewSchedule("D1"))>>
        /\ repayments = <<>>
        /\ loans = [l \in DOMAIN Loans |-> "disbursed"]
  /\ events = [e \in (EventTypes \X (1..MaxSchedules))
                     \cup (RepaymentEventTypes \X (1..(MaxRequests + 1))) |-> 0]
  /\ calls = [p \in Procs |-> IdleCall]
  /\ budget = MaxCalls
  /\ requests = [r \in Requests |-> IdleRequest]

NextRepayment ==
  \/ \E r \in Requests : CallProcessPayment(r)
  \/ \E r \in Requests : CallProcessRefund(r)
  \/ \E r \in Requests : RequestAcquireSuccess(r)
  \/ \E r \in Requests : RequestAcquireFail(r)
  \/ \E r \in Requests : ProcessPaymentRead(r)
  \/ \E r \in Requests : ProcessPaymentCreate(r)
  \/ \E r \in Requests : ProcessPaymentLedger(r)
  \/ \E r \in Requests : ProcessPaymentLedgerReturn(r)
  \/ \E r \in Requests : ProcessPaymentPublishOk(r)
  \/ \E r \in Requests : ProcessRefundRead(r)
  \/ \E r \in Requests : ProcessRefundUpdate(r)
  \/ \E r \in Requests : ProcessRefundPublishOk(r)
  \/ \E r \in Requests : RequestPublishFail(r)
  \/ \E r \in Requests : RequestRelease(r)
  \/ \E k \in RequestKeys : ExpireRequestKey(k)
  \/ \E p \in Procs : AcquireSuccess(p) /\ LedgerOnly
  \/ \E p \in Procs : AcquireFail(p) /\ LedgerOnly
  \/ \E p \in Procs : RecordPaymentRead(p) /\ LedgerOnly
  \/ \E p \in Procs : RepositoryUpdate(p) /\ LedgerOnly
  \/ \E p \in Procs : PublishOk(p) /\ LedgerOnly
  \/ \E p \in Procs : PublishCompletedOk(p) /\ LedgerOnly
  \/ \E p \in Procs : PublishFail(p) /\ LedgerOnly
  \/ \E p \in Procs : Release(p) /\ LedgerOnly

SpecRepayment == InitRepayment /\ [][NextRepayment]_vars

\* -------------------------------------------- properties of RepaymentService
\* the error codes thrown as UnprocessableEntityError
UnprocessableCodes ==
  {"LOAN_NOT_DISBURSED", "NO_PENDING_INSTALLMENTS", "INVALID_STATUS", "INACTIVE_SCHEDULE",
   "INSUFFICIENT_AMOUNT"}

\* request r is a processPayment for an existing loan that is not disbursed
NotDisbursed(r) ==
  /\ requests[r].op = "processPayment"
  /\ requests[r].loanApplicationId \in DOMAIN loans
  /\ loans[requests[r].loanApplicationId] # "disbursed"

C22_RefundedAtMostOnce ==
  /\ [][\A r \in Requests :
          /\ (requests[r].pc = "refundUpdate" /\ requests'[r].pc = "refundPublish")
               => repayments[requests[r].repaymentId].status = "completed"
          /\ (requests[r].pc = "refundRead"
                /\ requests[r].repaymentId \in DOMAIN repayments
                /\ repayments[requests[r].repaymentId].status # "completed"
                /\ requests'[r] # requests[r])
               => /\ requests'[r].outcome = "INVALID_STATUS"
                  /\ requests'[r].pc = "release"
                  /\ repayments' = repayments /\ events' = events]_vars
  /\ [](\A rid \in RepaymentIds :
          /\ events[<<"repayment.refunded", rid>>] <= 1
          /\ Cardinality({r \in Requests : /\ requests[r].op = "processRefund"
                                           /\ requests[r].repaymentId = rid
                                           /\ requests[r].wrote}) <= 1)

====
